---------------------------- MODULE Spec2Model ----------------------------
(***************************************************************************)
(* KindScript (ksc): the binder (ksBind), the target resolver              *)
(* (resolveValueNodes), the intrinsic property checks, the diagnostic      *)
(* assembler (createDiagnostic) and the memoizing checker                  *)
(* (createKSChecker: checkSymbol, checkProgram, checkSourceFile).          *)
(*                                                                         *)
(* A path is a sequence of one-character strings.  A source file is a      *)
(* record holding its fileName, its isDeclarationFile flag and its         *)
(* top-level statements; every statement carries the expression nodes      *)
(* below it in the order ts.forEachChild visits them (pre-order).          *)
(***************************************************************************)
EXTENDS Integers, Sequences, FiniteSets, TLC

\* ------------------------------------------------------------------------
\* Bounds of the model
\* ------------------------------------------------------------------------

\* the longest configuration (number of top-level entries) that is explored
MaxTargets == 2

\* the checker sessions (separate createKSChecker calls) that are explored
NumSessions == 2

Sessions == 1..NumSessions

\* ------------------------------------------------------------------------
\* Sequence helpers
\* ------------------------------------------------------------------------

RECURSIVE Flatten(_)
Flatten(ss) == IF ss = <<>> THEN <<>> ELSE Head(ss) \o Flatten(Tail(ss))

MapSeq(F(_), s) == [i \in 1..Len(s) |-> F(s[i])]

RECURSIVE SumSeq(_)
SumSeq(s) == IF s = <<>> THEN 0 ELSE Head(s) + SumSeq(Tail(s))

Range(s) == {s[i] : i \in 1..Len(s)}

\* String.prototype.includes on paths: needle occurs contiguously in hay
Includes(hay, needle) ==
  \E i \in 0..(Len(hay) - Len(needle)) :
     \A j \in 1..Len(needle) : hay[i + j] = needle[j]

\* ------------------------------------------------------------------------
\* The syntax trees supplied by the TypeScript program (the collaborator)
\* ------------------------------------------------------------------------

Node(kind, text, lit, start, width) ==
  [kind |-> kind, text |-> text, lit |-> lit, start |-> start, width |-> width]

Stmt(kind, spec, target, const, start, width, nodes) ==
  [kind |-> kind, spec |-> spec, target |-> target, const |-> const,
   start |-> start, width |-> width, nodes |-> nodes]

\* /s/a/m.t:  import b from '../b/m'; let x = 0; x = 1; x++;
FileA ==
  [fileName |-> <<"/","s","/","a","/","m",".","t">>,
   isDeclarationFile |-> FALSE,
   statements |-> <<
     Stmt("ImportDeclaration", "../b/m", 2, FALSE, 0, 23, <<>>),
     Stmt("VariableStatement", "", 0, FALSE, 24, 10, <<>>),
     Stmt("ExpressionStatement", "", 0, FALSE, 35, 6,
          << Node("Assignment", "=", FALSE, 35, 5) >>),
     Stmt("ExpressionStatement", "", 0, FALSE, 42, 4,
          << Node("PostfixIncDec", "++", FALSE, 42, 3) >>) >>]

\* /s/b/m.t:  import 'fs'; import c from '../c/m';
\*            import l = require('lodash'); const y = import('fs');
\*            console.log(y);
FileB ==
  [fileName |-> <<"/","s","/","b","/","m",".","t">>,
   isDeclarationFile |-> FALSE,
   statements |-> <<
     Stmt("ImportDeclaration", "fs", 0, FALSE, 0, 12, <<>>),
     Stmt("ImportDeclaration", "../c/m", 3, FALSE, 13, 23, <<>>),
     Stmt("ImportEqualsDeclaration", "lodash", 0, FALSE, 37, 29, <<>>),
     Stmt("VariableStatement", "", 0, TRUE, 67, 23,
          << Node("DynamicImport", "fs", TRUE, 77, 12) >>),
     Stmt("ExpressionStatement", "", 0, FALSE, 91, 15,
          << Node("Call", "", FALSE, 91, 14),
             Node("ConsoleProperty", "log", FALSE, 91, 11) >>) >>]

\* /s/c/m.t:  import a from '../a/m'; delete a.p; --a.q;
FileC ==
  [fileName |-> <<"/","s","/","c","/","m",".","t">>,
   isDeclarationFile |-> FALSE,
   statements |-> <<
     Stmt("ImportDeclaration", "../a/m", 1, FALSE, 0, 23, <<>>),
     Stmt("ExpressionStatement", "", 0, FALSE, 24, 11,
          << Node("Delete", "", FALSE, 24, 10) >>),
     Stmt("ExpressionStatement", "", 0, FALSE, 36, 6,
          << Node("PrefixIncDec", "--", FALSE, 36, 5) >>) >>]

\* /s/a/t.d.t:  a declaration file:  import b from '../b/m'; declare let z;
FileD ==
  [fileName |-> <<"/","s","/","a","/","t",".","d",".","t">>,
   isDeclarationFile |-> TRUE,
   statements |-> <<
     Stmt("ImportDeclaration", "../b/m", 2, FALSE, 0, 23, <<>>),
     Stmt("VariableStatement", "", 0, FALSE, 24, 14, <<>>) >>]

\* /s/a2/n.t:  x = 1; import(p);
FileN ==
  [fileName |-> <<"/","s","/","a","2","/","n",".","t">>,
   isDeclarationFile |-> FALSE,
   statements |-> <<
     Stmt("ExpressionStatement", "", 0, FALSE, 0, 6,
          << Node("Assignment", "=", FALSE, 0, 5) >>),
     Stmt("ExpressionStatement", "", 0, FALSE, 7, 10,
          << Node("DynamicImport", "", FALSE, 7, 9) >>) >>]

\* /s/e/io.t:  import 'fs';
FileIo ==
  [fileName |-> <<"/","s","/","e","/","i","o",".","t">>,
   isDeclarationFile |-> FALSE,
   statements |-> <<
     Stmt("ImportDeclaration", "fs", 0, FALSE, 0, 12, <<>>) >>]

\* /s/e/fx.t:  run();
FileFx ==
  [fileName |-> <<"/","s","/","e","/","f","x",".","t">>,
   isDeclarationFile |-> FALSE,
   statements |-> <<
     Stmt("ExpressionStatement", "", 0, FALSE, 0, 6,
          << Node("Call", "", FALSE, 0, 5) >>) >>]

\* /s/e/mu.t:  function g(o) { o.p = 1; }
FileMu ==
  [fileName |-> <<"/","s","/","e","/","m","u",".","t">>,
   isDeclarationFile |-> FALSE,
   statements |-> <<
     Stmt("FunctionDeclaration", "", 0, FALSE, 0, 26,
          << Node("Assignment", "=", FALSE, 16, 7) >>) >>]

\* /s/e/ok.t:  const k = 1;
FileOk ==
  [fileName |-> <<"/","s","/","e","/","o","k",".","t">>,
   isDeclarationFile |-> FALSE,
   statements |-> <<
     Stmt("VariableStatement", "", 0, TRUE, 0, 12, <<>>) >>]

\* /s/e/rq.t:  import f = require('fs');
FileRq ==
  [fileName |-> <<"/","s","/","e","/","r","q",".","t">>,
   isDeclarationFile |-> FALSE,
   statements |-> <<
     Stmt("ImportEqualsDeclaration", "fs", 0, FALSE, 0, 25, <<>>) >>]

\* /s/e/em.t:  an empty file
FileEmpty ==
  [fileName |-> <<"/","s","/","e","/","e","m",".","t">>,
   isDeclarationFile |-> FALSE,
   statements |-> <<>>]

\* every source file a program can hold, by file id
Files ==
  << FileA, FileB, FileC, FileD, FileN, FileIo, FileFx, FileMu, FileOk,
     FileRq, FileEmpty >>

FileIds == 1..Len(Files)

\* the programs explored: tsProgram.getSourceFiles() as a list of file ids
Programs == { <<1, 2, 3, 4, 5>>, <<3, 1>> }

\* the programs the pure functions are applied to
ProgramsWide == { <<1, 2, 3, 4, 5>>, <<6, 7, 8, 9, 10, 11>>, <<>> }

\* node.getStart(sourceFile) / node.getWidth(sourceFile) of a SourceFile node
FileStart(f) ==
  IF Files[f].statements = <<>> THEN 0 ELSE Files[f].statements[1].start

FileWidth(f) ==
  LET ss == Files[f].statements
  IN  IF ss = <<>> THEN 0
      ELSE ss[Len(ss)].start + ss[Len(ss)].width - ss[1].start

\* the nodes ts.forEachChild reaches from the SourceFile, in visiting order
AllNodes(f) == Flatten(MapSeq(LAMBDA st : st.nodes, Files[f].statements))

\* ------------------------------------------------------------------------
\* Intrinsic property checks (each returns its violations, in push order)
\* ------------------------------------------------------------------------

Violation(property, start, width, message) ==
  [property |-> property, start |-> start, width |-> width,
   message |-> message]

IO_MODULES ==
  { "fs", "fs/promises", "node:fs", "node:fs/promises",
    "net", "node:net", "http", "node:http", "https", "node:https",
    "http2", "node:http2", "child_process", "node:child_process",
    "cluster", "node:cluster", "dgram", "node:dgram", "dns", "node:dns",
    "tls", "node:tls", "readline", "node:readline" }

\* the violations a statement loop pushes: Pick(st) is <<>> or <<violation>>
OverStatements(f, Pick(_)) == Flatten(MapSeq(Pick, Files[f].statements))

\* the violations a recursive visit pushes
OverNodes(f, Pick(_)) == Flatten(MapSeq(Pick, AllNodes(f)))

checkNoImports(f) ==
  OverStatements(f, LAMBDA st :
     IF st.kind = "ImportDeclaration"
       THEN << Violation("noImports", st.start, st.width,
                         "Import declaration: '" \o st.spec \o "'") >>
     ELSE IF st.kind = "ImportEqualsDeclaration"
       THEN << Violation("noImports", st.start, st.width,
                         "Import equals declaration") >>
     ELSE <<>>)
  \o
  OverNodes(f, LAMBDA n :
     IF n.kind = "DynamicImport"
       THEN << Violation("noImports", n.start, n.width,
                         "Dynamic import() expression") >>
       ELSE <<>>)

checkNoConsole(f) ==
  OverNodes(f, LAMBDA n :
     IF n.kind = "ConsoleProperty"
       THEN << Violation("noConsole", n.start, n.width,
                         "console." \o n.text) >>
     ELSE IF n.kind = "ConsoleElement"
       THEN << Violation("noConsole", n.start, n.width,
                         "console[...] access") >>
     ELSE <<>>)

checkImmutable(f) ==
  OverStatements(f, LAMBDA st :
     IF st.kind = "VariableStatement" /\ ~st.const
       THEN << Violation("immutable", st.start, st.width,
                         "Mutable binding (let/var) at module scope") >>
       ELSE <<>>)

checkStatic(f) ==
  OverNodes(f, LAMBDA n :
     IF n.kind = "DynamicImport"
       THEN << Violation("static", n.start, n.width,
                         "Dynamic import() expression") >>
     ELSE IF n.kind = "ImportMeta"
       THEN << Violation("static", n.start, n.width,
                         "import.meta reference") >>
     ELSE <<>>)

\* the statement kinds checkNoSideEffects skips with `continue`
DeclarationKinds ==
  { "ImportDeclaration", "ExportDeclaration", "ExportAssignment",
    "TypeAliasDeclaration", "InterfaceDeclaration", "VariableStatement",
    "FunctionDeclaration", "ClassDeclaration", "EnumDeclaration",
    "ModuleDeclaration" }

checkNoSideEffects(f) ==
  OverStatements(f, LAMBDA st :
     IF st.kind \in DeclarationKinds
       THEN <<>>
       ELSE << Violation("noSideEffects", st.start, st.width,
                         "Top-level side effect statement") >>)

checkNoMutation(f) ==
  OverNodes(f, LAMBDA n :
     IF n.kind = "Assignment"
       THEN << Violation("noMutation", n.start, n.width,
                         "Assignment: " \o n.text) >>
     ELSE IF n.kind = "PrefixIncDec"
       THEN << Violation("noMutation", n.start, n.width,
                         "Prefix increment/decrement") >>
     ELSE IF n.kind = "PostfixIncDec"
       THEN << Violation("noMutation", n.start, n.width,
                         "Postfix increment/decrement") >>
     ELSE IF n.kind = "Delete"
       THEN << Violation("noMutation", n.start, n.width,
                         "delete expression") >>
     ELSE <<>>)

checkNoIO(f) ==
  OverStatements(f, LAMBDA st :
     IF st.kind = "ImportDeclaration" /\ st.spec \in IO_MODULES
       THEN << Violation("noIO", st.start, st.width,
                         "Import of IO module: '" \o st.spec \o "'") >>
       ELSE <<>>)
  \o
  OverNodes(f, LAMBDA n :
     IF n.kind = "DynamicImport" /\ n.lit /\ n.text \in IO_MODULES
       THEN << Violation("noIO", n.start, n.width,
                         "Dynamic import of IO module: '" \o n.text \o "'") >>
       ELSE <<>>)

Relabel(vs, property) == [i \in 1..Len(vs) |-> [vs[i] EXCEPT !.property = property]]

\* a checkPure that leaves out the violations of noSideEffects
checkPureWithoutSideEffects(f) ==
  Relabel(checkNoIO(f), "pure") \o Relabel(checkNoMutation(f), "pure")

checkPure(f) ==
  Relabel(checkNoIO(f), "pure") \o Relabel(checkNoMutation(f), "pure")
    \o Relabel(checkNoSideEffects(f), "pure")

\* the keys of the intrinsicChecks registry
IntrinsicNames ==
  { "noImports", "noConsole", "immutable", "static", "noSideEffects",
    "noMutation", "noIO", "pure" }

\* intrinsicChecks.get(prop)(node).violations
intrinsicChecks(prop, f) ==
  CASE prop = "noImports"     -> checkNoImports(f)
    [] prop = "noConsole"     -> checkNoConsole(f)
    [] prop = "immutable"     -> checkImmutable(f)
    [] prop = "static"        -> checkStatic(f)
    [] prop = "noSideEffects" -> checkNoSideEffects(f)
    [] prop = "noMutation"    -> checkNoMutation(f)
    [] prop = "noIO"          -> checkNoIO(f)
    [] prop = "pure"          -> checkPure(f)

\* the Set of specifiers checkMaxFanOut collects
importSpecifiers(f) ==
  { Files[f].statements[i].spec :
      i \in { j \in 1..Len(Files[f].statements) :
                Files[f].statements[j].kind = "ImportDeclaration" } }
  \cup
  { AllNodes(f)[i].text :
      i \in { j \in 1..Len(AllNodes(f)) :
                AllNodes(f)[j].kind = "DynamicImport" /\ AllNodes(f)[j].lit } }

\* the decimal digits and their values
DigitValue ==
  [c \in {"0","1","2","3","4","5","6","7","8","9"} |->
     CASE c = "0" -> 0 [] c = "1" -> 1 [] c = "2" -> 2 [] c = "3" -> 3
       [] c = "4" -> 4 [] c = "5" -> 5 [] c = "6" -> 6 [] c = "7" -> 7
       [] c = "8" -> 8 [] c = "9" -> 9]

\* the number a string of decimal digits denotes
RECURSIVE ParseDigits(_, _)
ParseDigits(chars, acc) ==
  IF chars = <<>> THEN acc
  ELSE ParseDigits(Tail(chars), 10 * acc + DigitValue[Head(chars)])

\* the characters of a string value as one string
RECURSIVE JoinChars(_)
JoinChars(chars) ==
  IF chars = <<>> THEN "" ELSE Head(chars) \o JoinChars(Tail(chars))

\* Array.prototype.join(','), what String(array) is
RECURSIVE JoinComma(_)
JoinComma(items) ==
  IF items = <<>> THEN ""
  ELSE IF Len(items) = 1 THEN Head(items)
  ELSE Head(items) \o "," \o JoinComma(Tail(items))

\* `${value}` of a template literal: the string JavaScript renders a rule
\* value as
TemplateText(v) ==
  CASE v.type = "num"   -> ToString(v.n)
    [] v.type = "bool"  -> IF v.b THEN "true" ELSE "false"
    [] v.type = "null"  -> "null"
    [] v.type = "str"   -> JoinChars(v.s)
    [] v.type = "names" -> JoinComma(v.names)
    [] v.type = "pairs" -> JoinComma(Flatten(v.pairs))

\* ToNumber(value), the conversion `actual <= maxAllowed` applies to its
\* right operand: true is 1, false and null are 0, a string of digits is its
\* number and '' is 0, any other string is NaN; an array goes through its
\* string, '' when it is empty and a list of names otherwise
ToNumber(v) ==
  CASE v.type = "num"  -> [nan |-> FALSE, n |-> v.n]
    [] v.type = "bool" -> [nan |-> FALSE, n |-> IF v.b THEN 1 ELSE 0]
    [] v.type = "null" -> [nan |-> FALSE, n |-> 0]
    [] v.type = "str"  ->
         IF \A i \in 1..Len(v.s) : v.s[i] \in DOMAIN DigitValue
           THEN [nan |-> FALSE, n |-> ParseDigits(v.s, 0)]
           ELSE [nan |-> TRUE, n |-> 0]
    [] v.type = "names" -> [nan |-> v.names # <<>>, n |-> 0]
    [] v.type = "pairs" -> [nan |-> v.pairs # <<>>, n |-> 0]

\* `actual <= maxAllowed`: false whenever the right operand converts to NaN
LessOrEqual(actual, v) ==
  ~ToNumber(v).nan /\ actual <= ToNumber(v).n

\* checkMaxFanOut(node, maxAllowed).violations, maxAllowed being whatever
\* value the rule carries
checkMaxFanOut(f, maxAllowed) ==
  LET actual == Cardinality(importSpecifiers(f))
  IN  IF LessOrEqual(actual, maxAllowed)
        THEN <<>>
        ELSE << Violation("maxFanOut", FileStart(f), FileWidth(f),
                  ToString(actual) \o " dependencies, max is "
                    \o TemplateText(maxAllowed)) >>

\* ------------------------------------------------------------------------
\* Diagnostic assembler
\* ------------------------------------------------------------------------

errorCodeMap ==
  [ noImports |-> 70008, noConsole |-> 70009, immutable |-> 70010,
    static |-> 70011, noSideEffects |-> 70012, noMutation |-> 70013,
    noIO |-> 70007, pure |-> 70003, maxFanOut |-> 70014 ]

messageMap ==
  [ noImports |-> "Value has import declarations",
    noConsole |-> "Value uses console",
    immutable |-> "Value has mutable bindings at module scope",
    static |-> "Value uses dynamic imports",
    noSideEffects |-> "Value has top-level side effects",
    noMutation |-> "Value contains mutations",
    noIO |-> "Value performs IO",
    pure |-> "Value is not pure",
    maxFanOut |-> "Value exceeds maximum fan-out" ]

\* createDiagnostic(property, sourceFile, violation), violation present
\* an assembler whose table lookup always misses, so that every
\* diagnostic carries the fallback code
createDiagnosticFallbackCode(property, f, violation) ==
  [ file |-> f,
    start |-> violation.start,
    length |-> violation.width,
    messageText |->
      (IF property \in DOMAIN messageMap THEN messageMap[property]
       ELSE "Property '" \o property \o "' violated")
      \o ": " \o violation.message,
    category |-> "Error",
    code |-> 70000,
    property |-> property ]

createDiagnostic(property, f, violation) ==
  [ file |-> f,
    start |-> violation.start,
    length |-> violation.width,
    messageText |->
      (IF property \in DOMAIN messageMap THEN messageMap[property]
       ELSE "Property '" \o property \o "' violated")
      \o ": " \o violation.message,
    category |-> "Error",
    code |-> IF property \in DOMAIN errorCodeMap THEN errorCodeMap[property]
             ELSE 70000,
    property |-> property ]

\* ------------------------------------------------------------------------
\* Configuration (KindScriptConfig) and the rule sets explored
\* ------------------------------------------------------------------------

\* one [key, value] pair of a RuleSet, as Object.entries yields it
BoolRule(name, b) ==
  [name |-> name, type |-> "bool", b |-> b, n |-> 0, pairs |-> <<>>,
   names |-> <<>>, s |-> <<>>]

NumRule(name, n) ==
  [name |-> name, type |-> "num", b |-> FALSE, n |-> n, pairs |-> <<>>,
   names |-> <<>>, s |-> <<>>]

PairsRule(name, pairs) ==
  [name |-> name, type |-> "pairs", b |-> FALSE, n |-> 0, pairs |-> pairs,
   names |-> <<>>, s |-> <<>>]

NamesRule(name, names) ==
  [name |-> name, type |-> "names", b |-> FALSE, n |-> 0, pairs |-> <<>>,
   names |-> names, s |-> <<>>]

\* a rule whose value is a string, given as its characters
StrRule(name, chars) ==
  [name |-> name, type |-> "str", b |-> FALSE, n |-> 0, pairs |-> <<>>,
   names |-> <<>>, s |-> chars]

\* a rule whose value is null
NullRule(name) ==
  [name |-> name, type |-> "null", b |-> FALSE, n |-> 0, pairs |-> <<>>,
   names |-> <<>>, s |-> <<>>]

TargetEntry(name, path, rules) ==
  [name |-> name, isComposite |-> FALSE, path |-> path, rules |-> rules,
   members |-> <<>>]

CompositeEntry(name, members, rules) ==
  [name |-> name, isComposite |-> TRUE, path |-> <<>>, rules |-> rules,
   members |-> members]

\* mut: { path: './s/a/m.t',
\*        rules: { noMutation, pure, noImports: false, maxFanOut: 0 } }
EntryMut ==
  TargetEntry("mut", <<".","/","s","/","a","/","m",".","t">>,
              << BoolRule("noMutation", TRUE), BoolRule("pure", TRUE),
                 BoolRule("noImports", FALSE), NumRule("maxFanOut", 0) >>)

\* infra: { path: './s/b', rules: { noIO, noConsole, maxFanOut: 2 } }
EntryInfra ==
  TargetEntry("infra", <<".","/","s","/","b">>,
              << BoolRule("noIO", TRUE), BoolRule("noConsole", TRUE),
                 NumRule("maxFanOut", 2) >>)

\* app: { members: { A: s/a, B: ./s/b, C: s\c }, rules: { relational } }
EntryApp ==
  CompositeEntry("app",
    << TargetEntry("A", <<"s","/","a">>,
                   << BoolRule("noMutation", TRUE),
                      BoolRule("immutable", TRUE) >>),
       TargetEntry("B", <<".","/","s","/","b">>,
                   << NumRule("maxFanOut", 1), BoolRule("pure", TRUE) >>),
       TargetEntry("C", <<"s","\\","c">>, <<>>) >>,
    << PairsRule("noDependency", << <<"A", "B">> >>),
       PairsRule("noTransitiveDependency", << <<"A", "C">> >>),
       NamesRule("noCycles", <<"A", "B", "C">>) >>)

\* phantom: { path: './x', rules: { noConsole: true } }
EntryPhantom ==
  TargetEntry("phantom", <<".","/","x">>, << BoolRule("noConsole", TRUE) >>)

\* the entries in the order in which a configuration lists them
Entries == << EntryMut, EntryApp, EntryInfra, EntryPhantom >>

\* the entries whose index is in picked, in the order of Entries
RECURSIVE EntriesAt(_)
EntriesAt(picked) ==
  IF picked = {} THEN <<>>
  ELSE LET i == CHOOSE m \in picked : \A n \in picked : m <= n
       IN  << Entries[i] >> \o EntriesAt(picked \ {i})

\* the configurations explored: Object.entries(config), keys distinct
Configs ==
  { EntriesAt(picked) :
      picked \in { S \in SUBSET (1..Len(Entries)) :
                     Cardinality(S) <= MaxTargets } }

\* the paths a configuration entry can carry: the path of every source
\* file, and file and directory paths written with './', with backslashes,
\* with a trailing slash, as a bare file name, matching nothing, and empty
PathsWide ==
  { Files[f].fileName : f \in FileIds }
  \cup
  { <<".","/","s","/","a","/","m",".","t">>,
    <<"s","\\","a","\\","m",".","t">>,
    <<".","\\","s","\\","a","\\","m",".","t">>,
    <<".","\\","s","\\","a">>,
    <<".","/",".","/","s","/","a","/","m",".","t">>,
    <<"m",".","t">>,
    <<".","/","s","/","b">>,
    <<"s","/","a">>,
    <<"s","\\","c">>,
    <<"s","/","a","/">>,
    <<"s","/","e">>,
    <<".","/","x">>,
    <<>> }

\* the rule sets an entry can carry: well-formed ones, ones with values of
\* the wrong type, and ones with names the checker has no check for
RuleSetsWide ==
  { <<>>,
    << BoolRule("pure", TRUE) >>,
    << BoolRule("noIO", TRUE), BoolRule("noMutation", TRUE),
       BoolRule("noSideEffects", TRUE) >>,
    << BoolRule("noImports", TRUE), BoolRule("noConsole", TRUE),
       BoolRule("immutable", TRUE), BoolRule("static", TRUE),
       NumRule("maxFanOut", 1) >>,
    << BoolRule("noMutation", TRUE),
       StrRule("maxFanOut", <<"a","b","c">>) >>,
    << BoolRule("noMutation", TRUE), StrRule("noImports", <<"y","e","s">>),
       BoolRule("noConsole", FALSE), NumRule("noIO", 1),
       NumRule("maxFanOut", 0) >>,
    << NullRule("maxFanOut"), BoolRule("static", TRUE) >>,
    << BoolRule("maxFanOut", TRUE), BoolRule("immutable", TRUE) >>,
    << StrRule("maxFanOut", <<"1">>), NullRule("pure") >>,
    << BoolRule("noMutation", TRUE), BoolRule("bogus", TRUE),
       NumRule("limit", 3), StrRule("scope", <<"f","i","l","e">>),
       BoolRule("exhaustive", TRUE), BoolRule("noSiblingDependency", TRUE),
       NumRule("maxFanOut", 1) >> }

\* ghost: a composite none of whose members resolves to a source file
EntryGhost ==
  CompositeEntry("ghost",
    << TargetEntry("X", <<".","/","x">>,
                   << BoolRule("noConsole", TRUE),
                      StrRule("maxFanOut", <<"a","b","c">>) >>),
       TargetEntry("Y", <<"y",".","t">>,
                   << BoolRule("pure", TRUE), NumRule("maxFanOut", 0) >>) >>,
    << PairsRule("noDependency", << <<"X", "Y">> >>),
       NamesRule("noCycles", <<"X", "Y">>) >>)

\* paths whose dots are not all extension dots: a dotted directory above
\* the last segment, '..', a trailing dot, a dot file, a file path with a
\* trailing slash, a suffix with a character outside \w, two extensions
PathsDotted ==
  { <<"s",".","d","/","a">>,
    <<".",".">>,
    <<"s","/","a",".">>,
    <<"s","/",".","e">>,
    <<"s","/","a",".","t","/">>,
    <<"a",".","t","-","x">>,
    <<"s",".","d","\\","a">>,
    <<"a",".","b",".","c">> }

\* layer: a composite that declares intrinsic rules of its own
\* layer: { members: { A: { path: 's/a', rules: { noImports } },
\*                     B: { path: './s/b', rules: { noConsole } } },
\*          rules: { noMutation, pure, maxFanOut: 0 } }
EntryLayer ==
  CompositeEntry("layer",
    << TargetEntry("A", <<"s","/","a">>, << BoolRule("noImports", TRUE) >>),
       TargetEntry("B", <<".","/","s","/","b">>,
                   << BoolRule("noConsole", TRUE) >>) >>,
    << BoolRule("noMutation", TRUE), BoolRule("pure", TRUE),
       NumRule("maxFanOut", 0) >>)

\* floor: { path: 's/e', rules: { maxFanOut: -1 } }
EntryFloor ==
  TargetEntry("floor", <<"s","/","e">>, << NumRule("maxFanOut", -1) >>)

\* none: a composite without members
EntryNone == CompositeEntry("none", <<>>, << NamesRule("noCycles", <<>>) >>)

\* the configurations the pure functions are applied to: none, one leaf
\* entry of every path and rule set, and the composites
ConfigsWide ==
  { <<>>, << EntryApp >>, << EntryGhost >>, << EntryPhantom, EntryGhost >>,
    << EntryNone >>, << EntryGhost, EntryNone, EntryMut >>,
    << EntryLayer >>, << EntryFloor >> }
  \cup
  Configs
  \cup
  { << TargetEntry("t", path, <<>>) >> : path \in PathsDotted }
  \cup
  { << TargetEntry("t", path, rules) >> :
      path \in PathsWide, rules \in RuleSetsWide }

\* isCompositeEntry(entry)
isCompositeEntry(entry) == entry.isComposite

\* ------------------------------------------------------------------------
\* Binder
\* ------------------------------------------------------------------------

\* the characters \w matches
WordChars ==
  { "a","b","c","d","e","f","g","h","i","j","k","l","m","n","o","p","q",
    "r","s","t","u","v","w","x","y","z","A","B","C","D","E","F","G","H",
    "I","J","K","L","M","N","O","P","Q","R","S","T","U","V","W","X","Y",
    "Z","0","1","2","3","4","5","6","7","8","9","_" }

\* a binder that takes every path holding a dot for a file
detectValueKindAnyDot(path) ==
  IF \E i \in 1..Len(path) : path[i] = "." THEN "file" ELSE "directory"

\* a binder that takes every path for a directory
detectValueKindDirectory(path) == "directory"

\* /\.\w+$/.test(path) ? 'file' : 'directory'
detectValueKind(path) ==
  IF \E i \in 1..(Len(path) - 1) :
        /\ path[i] = "."
        /\ \A j \in (i + 1)..Len(path) : path[j] \in WordChars
    THEN "file" ELSE "directory"

\* an id generator that hands out the same id every time
assignIdSame(nextId) == "sym-0"

\* assignId(): `sym-${nextId++}`
assignId(nextId) == "sym-" \o ToString(nextId)

LeafSymbol(id, entry) ==
  [id |-> id, name |-> entry.name, declaredProperties |-> entry.rules,
   hasPath |-> TRUE, path |-> entry.path,
   valueKind |-> detectValueKind(entry.path),
   hasMembers |-> FALSE, members |-> <<>>]

\* a composite symbol that also records a path
CompositeSymbolWithPath(id, entry, members) ==
  [id |-> id, name |-> entry.name, declaredProperties |-> entry.rules,
   hasPath |-> TRUE, path |-> entry.path, valueKind |-> "composite",
   hasMembers |-> TRUE, members |-> members]

CompositeSymbol(id, entry, members) ==
  [id |-> id, name |-> entry.name, declaredProperties |-> entry.rules,
   hasPath |-> FALSE, path |-> <<>>, valueKind |-> "composite",
   hasMembers |-> TRUE, members |-> members]

\* the loop of ksBind from entry i on, nextId being the next free id
RECURSIVE ksBindFrom(_, _, _)
ksBindFrom(config, i, nextId) ==
  IF i > Len(config) THEN [symbols |-> <<>>, targets |-> <<>>]
  ELSE
    LET entry == config[i]
    IN  IF isCompositeEntry(entry)
          THEN
            LET n       == Len(entry.members)
                members == [k \in 1..n |->
                              LeafSymbol(assignId(nextId + k - 1),
                                         entry.members[k])]
                sym     == CompositeSymbol(assignId(nextId + n), entry, members)
                rest    == ksBindFrom(config, i + 1, nextId + n + 1)
            IN  [symbols |-> members \o <<sym>> \o rest.symbols,
                 targets |-> <<sym>> \o rest.targets]
          ELSE
            LET sym  == LeafSymbol(assignId(nextId), entry)
                rest == ksBindFrom(config, i + 1, nextId + 1)
            IN  [symbols |-> <<sym>> \o rest.symbols,
                 targets |-> <<sym>> \o rest.targets]

\* a binder that lists every symbol, members included, among the targets
ksBindAllTargets(config) ==
  [symbols |-> ksBindFrom(config, 1, 0).symbols,
   targets |-> ksBindFrom(config, 1, 0).symbols]

ksBind(config) == ksBindFrom(config, 1, 0)

\* ------------------------------------------------------------------------
\* Target resolver
\* ------------------------------------------------------------------------

\* path.replace(/^\.\//, '')
StripDotSlash(path) ==
  IF Len(path) >= 2 /\ path[1] = "." /\ path[2] = "/"
    THEN SubSeq(path, 3, Len(path)) ELSE path

\* path.replace(/\\/g, '/')
ToForwardSlashes(path) ==
  [i \in 1..Len(path) |-> IF path[i] = "\\" THEN "/" ELSE path[i]]

\* a resolver that does not look at sf.isDeclarationFile
resolveValueNodesAll(sym, prog) ==
  IF sym.valueKind = "composite" \/ ~sym.hasPath \/ sym.path = <<>>
    THEN <<>>
    ELSE
      LET suffix == ToForwardSlashes(StripDotSlash(sym.path))
          needle == IF sym.valueKind = "file" THEN suffix
                    ELSE <<"/">> \o suffix \o <<"/">>
      IN  SelectSeq(prog, LAMBDA f :
            Includes(ToForwardSlashes(Files[f].fileName), needle))

\* resolveValueNodes(sym, tsProgram): the file ids matched, in program order
resolveValueNodes(sym, prog) ==
  CASE sym.valueKind = "file" ->
         IF ~sym.hasPath \/ sym.path = <<>> THEN <<>>
         ELSE
           LET fileSuffix == ToForwardSlashes(StripDotSlash(sym.path))
           IN  SelectSeq(prog, LAMBDA f :
                 /\ ~Files[f].isDeclarationFile
                 /\ Includes(ToForwardSlashes(Files[f].fileName), fileSuffix))
    [] sym.valueKind = "directory" ->
         IF ~sym.hasPath \/ sym.path = <<>> THEN <<>>
         ELSE
           LET dirSuffix == ToForwardSlashes(StripDotSlash(sym.path))
           IN  SelectSeq(prog, LAMBDA f :
                 /\ ~Files[f].isDeclarationFile
                 /\ Includes(ToForwardSlashes(Files[f].fileName),
                             <<"/">> \o dirSuffix \o <<"/">>))
    [] sym.valueKind = "composite" -> <<>>

\* ------------------------------------------------------------------------
\* Checker: checkSymbol
\* ------------------------------------------------------------------------

\* a boolean loop that reports a rule it has no check for instead of
\* skipping it
BooleanDiagnosticsReportUnknown(declared, f) ==
  Flatten([i \in 1..Len(declared) |->
    LET prop == declared[i].name
    IN  IF ~(declared[i].type = "bool" /\ declared[i].b) THEN <<>>
        ELSE IF prop \notin IntrinsicNames
          THEN << createDiagnostic(prop, f,
                    Violation(prop, FileStart(f), FileWidth(f),
                              "no such rule")) >>
        ELSE IF intrinsicChecks(prop, f) = <<>> THEN <<>>
        ELSE << createDiagnostic(prop, f, intrinsicChecks(prop, f)[1]) >>])

\* a boolean loop without the `if (value !== true) continue` test: it runs
\* the check of every rule that is named, whatever its value
BooleanDiagnosticsAnyValue(declared, f) ==
  Flatten([i \in 1..Len(declared) |->
    LET prop == declared[i].name
    IN  IF prop \notin IntrinsicNames THEN <<>>
        ELSE IF intrinsicChecks(prop, f) = <<>> THEN <<>>
        ELSE << createDiagnostic(prop, f, intrinsicChecks(prop, f)[1]) >>])

\* the diagnostics the boolean loop pushes for one node
BooleanDiagnostics(declared, f) ==
  Flatten([i \in 1..Len(declared) |->
    LET prop == declared[i].name
    IN  IF ~(declared[i].type = "bool" /\ declared[i].b) THEN <<>>
        ELSE IF prop \notin IntrinsicNames THEN <<>>
        ELSE IF intrinsicChecks(prop, f) = <<>> THEN <<>>
        ELSE << createDiagnostic(prop, f, intrinsicChecks(prop, f)[1]) >>])

\* the diagnostic the maxFanOut block pushes for one node:
\* `if (declared.maxFanOut !== undefined)`, whatever the value is
FanOutDiagnostics(declared, f) ==
  Flatten([i \in 1..Len(declared) |->
    IF declared[i].name # "maxFanOut" THEN <<>>
    ELSE
      LET violations == checkMaxFanOut(f, declared[i])
      IN  IF violations = <<>> THEN <<>>
          ELSE << createDiagnostic("maxFanOut", f, violations[1]) >>])

\* a checkSymbol that walks every source file of the program when the
\* symbol resolves to none
RECURSIVE checkSymbolFallback(_, _)
checkSymbolFallback(sym, prog) ==
  IF sym.valueKind = "composite" /\ sym.hasMembers
    THEN Flatten([k \in 1..Len(sym.members) |->
                    checkSymbolFallback(sym.members[k], prog)])
    ELSE
      LET resolved == resolveValueNodes(sym, prog)
          nodes    == IF resolved # <<>> THEN resolved
                      ELSE SelectSeq(prog, LAMBDA f :
                             ~Files[f].isDeclarationFile)
          declared == sym.declaredProperties
      IN  Flatten([k \in 1..Len(nodes) |->
                     BooleanDiagnostics(declared, nodes[k])
                       \o FanOutDiagnostics(declared, nodes[k])])

\* a checkSymbol that also applies the rules a composite declares itself
\* to the source files of its members
RECURSIVE checkSymbolOwnRules(_, _)
checkSymbolOwnRules(sym, prog) ==
  IF sym.valueKind = "composite" /\ sym.hasMembers
    THEN Flatten([k \in 1..Len(sym.members) |->
                    checkSymbolOwnRules(sym.members[k], prog)
                      \o checkSymbolOwnRules(
                           [sym.members[k] EXCEPT
                              !.declaredProperties = sym.declaredProperties],
                           prog)])
    ELSE
      LET nodes    == resolveValueNodes(sym, prog)
          declared == sym.declaredProperties
      IN  Flatten([k \in 1..Len(nodes) |->
                     BooleanDiagnostics(declared, nodes[k])
                       \o FanOutDiagnostics(declared, nodes[k])])

RECURSIVE checkSymbol(_, _)
checkSymbol(sym, prog) ==
  IF sym.valueKind = "composite" /\ sym.hasMembers
    THEN Flatten([k \in 1..Len(sym.members) |->
                    checkSymbol(sym.members[k], prog)])
    ELSE
      LET nodes    == resolveValueNodes(sym, prog)
          declared == sym.declaredProperties
      IN  Flatten([k \in 1..Len(nodes) |->
                     BooleanDiagnostics(declared, nodes[k])
                       \o FanOutDiagnostics(declared, nodes[k])])

\* ------------------------------------------------------------------------
\* Checker sessions: createKSChecker, checkProgram, checkSourceFile
\* ------------------------------------------------------------------------

VARIABLES
  program,   \* tsProgram.getSourceFiles(), a list of file ids
  config,    \* the configuration the targets are bound from
  created,   \* created[s]: createKSChecker has returned session s
  targets,   \* targets[s]: the `targets` parameter captured by session s
  cached,    \* cached[s]: the closure variable `cached` of session s
  runs,      \* runs[s]: how often the loop over the targets was entered
  failed,    \* failed[s]: a collaborator threw during the loop of session s
  first,     \* first[s]: the list the first returning checkProgram returned
  last,      \* the call made by the last step, whether it entered the loop
             \* over the targets (ran), and its outcome
  applied,   \* the function applied by the last step outside a session,
             \* with its arguments and its result
  checker    \* the closure variable `checker` of the program object: 0 for
             \* undefined, else the session it holds

vars ==
  <<program, config, created, targets, cached, runs, failed, first, last,
    applied, checker>>

\* `let cached: KSDiagnostic[] | undefined`
Undefined == [set |-> FALSE, diags |-> <<>>]

NoCall ==
  [op |-> "none", session |-> 0, sf |-> 0, outcome |-> "none", ran |-> FALSE,
   result |-> <<>>]

NoApplication == [op |-> "none"]

Init ==
  /\ program \in Programs
  /\ config \in Configs
  /\ created = [s \in Sessions |-> FALSE]
  /\ targets = [s \in Sessions |-> <<>>]
  /\ cached = [s \in Sessions |-> Undefined]
  /\ runs = [s \in Sessions |-> 0]
  /\ failed = [s \in Sessions |-> FALSE]
  /\ first = [s \in Sessions |-> Undefined]
  /\ last = NoCall
  /\ applied = NoApplication
  /\ checker = 0

\* a checkProgram without the `if (!cached)` test: every call analyses again
NeedsAnalysisAlways(c) == TRUE

\* `if (!cached)`: an array, even an empty one, is truthy
NeedsAnalysis(c) == ~c.set

\* a cache held in one module-level variable that every session shares
StoreCacheShared(caches, s, diags) ==
  [t \in DOMAIN caches |-> [set |-> TRUE, diags |-> diags]]

\* the assignment to the session's own closure variable
StoreCache(caches, s, diags) ==
  [caches EXCEPT ![s] = [set |-> TRUE, diags |-> diags]]

\* the lists the calls checkSymbol(sym) return for `sym of targets`, in order
RECURSIVE TargetDiagnostics(_, _)
TargetDiagnostics(tgts, prog) ==
  IF tgts = <<>> THEN <<>>
  ELSE << checkSymbol(Head(tgts), prog) >>
         \o TargetDiagnostics(Tail(tgts), prog)

\* `cached.push(...checkSymbol(sym))` for the targets the loop got through.
\* failAt = 0: every target is analysed; failAt = i: a collaborator call
\* throws inside checkSymbol(targets[i]), so only targets 1..i-1 were pushed
Pushed(results, failAt) ==
  Flatten(SubSeq(results, 1,
                 IF failAt = 0 THEN Len(results) ELSE failAt - 1))

\* `cached = []; for (const sym of targets) cached.push(...checkSymbol(sym))`
AnalysisPass(tgts, prog, failAt) ==
  Pushed(TargetDiagnostics(tgts, prog), failAt)

\* where the loop over the targets can fail
FailurePoints(tgts) == 0..Len(tgts)

\* a checkProgram that pushes onto the list of the earlier calls
checkProgramBodyAppending(s) ==
  { [caches |-> StoreCache(cached, s,
                           cached[s].diags \o Pushed(results, failAt)),
     ran |-> TRUE, threw |-> failAt # 0] :
      results \in {TargetDiagnostics(targets[s], program)},
      failAt \in FailurePoints(targets[s]) }

\* the body of checkProgram on session s: the outcomes it can have, each
\* with the new cache, whether the loop was entered and whether it threw
checkProgramBody(s) ==
  IF NeedsAnalysis(cached[s])
    THEN { [caches |-> StoreCache(cached, s, Pushed(results, failAt)),
            ran |-> TRUE, threw |-> failAt # 0] :
             results \in {TargetDiagnostics(targets[s], program)},
             failAt \in FailurePoints(targets[s]) }
    ELSE { [caches |-> cached, ran |-> FALSE, threw |-> FALSE] }

\* a checkSourceFile that forgets the filter
FilterByFileNone(diags, sf) == diags

\* `checkProgram().filter(d => d.file.fileName === sf.fileName)`
FilterByFile(diags, sf) ==
  SelectSeq(diags, LAMBDA d : Files[d.file].fileName = Files[sf].fileName)

\* createKSChecker(tsProgram, ksBind(config).targets)
CreateChecker(s) ==
  /\ ~created[s]
  /\ created' = [created EXCEPT ![s] = TRUE]
  /\ targets' = [targets EXCEPT ![s] = ksBind(config).targets]
  /\ last' = [op |-> "create", session |-> s, sf |-> 0,
              outcome |-> "returned", ran |-> FALSE, result |-> <<>>]
  /\ UNCHANGED <<program, config, cached, runs, failed, first, applied,
                 checker>>

\* a checkProgram whose loop takes the symbols out of the targets list as
\* it goes (targets.shift())
CheckProgramConsuming(s) ==
  /\ created[s]
  /\ \E body \in checkProgramBody(s) :
       LET out  == IF body.threw THEN <<>> ELSE body.caches[s].diags
       IN  /\ cached' = body.caches
           /\ runs' = [runs EXCEPT ![s] = IF body.ran THEN @ + 1 ELSE @]
           /\ failed' = [failed EXCEPT ![s] = @ \/ body.threw]
           /\ last' = [op |-> "checkProgram", session |-> s, sf |-> 0,
                       outcome |-> IF body.threw THEN "threw" ELSE "returned",
                       ran |-> body.ran, result |-> out]
           /\ first' = IF ~body.threw /\ ~first[s].set
                         THEN [first EXCEPT ![s] = [set |-> TRUE, diags |-> out]]
                         ELSE first
           /\ targets' = IF body.ran THEN [targets EXCEPT ![s] = <<>>]
                                     ELSE targets
  /\ UNCHANGED <<program, config, created, applied, checker>>

\* checker.checkProgram() on session s
CheckProgram(s) ==
  /\ created[s]
  /\ \E body \in checkProgramBody(s) :
       LET out  == IF body.threw THEN <<>> ELSE body.caches[s].diags
       IN  /\ cached' = body.caches
           /\ runs' = [runs EXCEPT ![s] = IF body.ran THEN @ + 1 ELSE @]
           /\ failed' = [failed EXCEPT ![s] = @ \/ body.threw]
           /\ last' = [op |-> "checkProgram", session |-> s, sf |-> 0,
                       outcome |-> IF body.threw THEN "threw" ELSE "returned",
                       ran |-> body.ran, result |-> out]
           /\ first' = IF ~body.threw /\ ~first[s].set
                         THEN [first EXCEPT ![s] = [set |-> TRUE, diags |-> out]]
                         ELSE first
  /\ UNCHANGED <<program, config, created, targets, applied, checker>>

\* checker.checkSourceFile(sf) on session s, sf a source file of the program
CheckSourceFile(s) ==
  /\ created[s]
  /\ \/ \E sf \in Range(program) :
          /\ Files[sf].isDeclarationFile
          /\ last' = [op |-> "checkSourceFile", session |-> s, sf |-> sf,
                      outcome |-> "returned", ran |-> FALSE, result |-> <<>>]
          /\ UNCHANGED <<cached, runs, failed>>
     \/ \E body \in checkProgramBody(s) :
        \E sf \in Range(program) :
          LET out == IF body.threw THEN <<>>
                     ELSE FilterByFile(body.caches[s].diags, sf)
          IN  /\ ~Files[sf].isDeclarationFile
              /\ cached' = body.caches
              /\ runs' = [runs EXCEPT ![s] = IF body.ran THEN @ + 1 ELSE @]
              /\ failed' = [failed EXCEPT ![s] = @ \/ body.threw]
              /\ last' = [op |-> "checkSourceFile", session |-> s, sf |-> sf,
                          outcome |-> IF body.threw THEN "threw"
                                      ELSE "returned",
                          ran |-> body.ran, result |-> out]
  /\ UNCHANGED <<program, config, created, targets, first, applied, checker>>

Next ==
  \/ \E s \in Sessions : CreateChecker(s)
  \/ \E s \in Sessions : CheckProgram(s)
  \/ \E s \in Sessions : CheckSourceFile(s)

Spec == Init /\ [][Next]_vars

\* ------------------------------------------------------------------------
\* The binder, the resolver, the checks and the diagnostic assembler applied
\* on their own, to a wider range of configurations and programs
\* ------------------------------------------------------------------------

\* the 15 rule names of the RuleSet vocabulary
RuleNames ==
  { "pure", "noIO", "noImports", "noMutation", "noConsole", "immutable",
    "static", "noSideEffects", "maxFanOut", "noDependency",
    "noTransitiveDependency", "noCycles", "noSiblingDependency",
    "exhaustive", "scope" }

InitFunctions ==
  /\ program \in ProgramsWide
  /\ config \in ConfigsWide
  /\ created = [s \in Sessions |-> FALSE]
  /\ targets = [s \in Sessions |-> <<>>]
  /\ cached = [s \in Sessions |-> Undefined]
  /\ runs = [s \in Sessions |-> 0]
  /\ failed = [s \in Sessions |-> FALSE]
  /\ first = [s \in Sessions |-> Undefined]
  /\ last = NoCall
  /\ applied = NoApplication
  /\ checker = 0

\* resolveValueNodes(sym, tsProgram) for a symbol ksBind(config) produced
ApplyResolveValueNodes ==
  /\ \E i \in 1..Len(ksBind(config).symbols) :
       LET sym == ksBind(config).symbols[i]
       IN  applied' = [op |-> "resolveValueNodes", sym |-> sym,
                       result |-> resolveValueNodes(sym, program)]
  /\ UNCHANGED <<program, config, created, targets, cached, runs, failed,
                 first, last, checker>>

\* checkSymbol(sym) for a symbol ksBind(config) produced
ApplyCheckSymbol ==
  /\ \E i \in 1..Len(ksBind(config).symbols) :
       LET sym == ksBind(config).symbols[i]
       IN  applied' = [op |-> "checkSymbol", sym |-> sym,
                       result |-> checkSymbol(sym, program)]
  /\ UNCHANGED <<program, config, created, targets, cached, runs, failed,
                 first, last, checker>>

\* createKSChecker(tsProgram, ksBind(config).targets).checkProgram() when
\* no collaborator fails
ApplyCheck ==
  /\ applied' = [op |-> "check",
                 result |-> AnalysisPass(ksBind(config).targets, program, 0)]
  /\ UNCHANGED <<program, config, created, targets, cached, runs, failed,
                 first, last, checker>>

\* createDiagnostic(property, sourceFile, violation)
ApplyCreateDiagnostic ==
  /\ \E property \in RuleNames \cup {"bogus"} :
     \E f \in Range(program) :
       LET violation == Violation(property, FileStart(f), FileWidth(f),
                                  "detail")
       IN  applied' = [op |-> "createDiagnostic", property |-> property,
                       file |-> f,
                       result |-> createDiagnostic(property, f, violation)]
  /\ UNCHANGED <<program, config, created, targets, cached, runs, failed,
                 first, last, checker>>

\* checkPure(node) for a source file of the program
ApplyCheckPure ==
  /\ \E f \in Range(program) :
       applied' = [op |-> "checkPure", file |-> f, result |-> checkPure(f)]
  /\ UNCHANGED <<program, config, created, targets, cached, runs, failed,
                 first, last, checker>>

\* ksBind(config)
ApplyKsBind ==
  /\ applied' = [op |-> "ksBind", result |-> ksBind(config)]
  /\ UNCHANGED <<program, config, created, targets, cached, runs, failed,
                 first, last, checker>>

\* intrinsicChecks.get(prop)(node) for a source file of the program
ApplyIntrinsicCheck ==
  /\ \E prop \in IntrinsicNames :
     \E f \in Range(program) :
       applied' = [op |-> "intrinsicCheck", property |-> prop, file |-> f,
                   result |-> intrinsicChecks(prop, f)]
  /\ UNCHANGED <<program, config, created, targets, cached, runs, failed,
                 first, last, checker>>

NextFunctions ==
  \/ ApplyResolveValueNodes
  \/ ApplyCheckSymbol
  \/ ApplyCheck
  \/ ApplyCreateDiagnostic
  \/ ApplyCheckPure
  \/ ApplyIntrinsicCheck
  \/ ApplyKsBind

SpecFunctions == InitFunctions /\ [][NextFunctions]_vars

\* ------------------------------------------------------------------------
\* The program object: getKindChecker and getKindDiagnostics
\* ------------------------------------------------------------------------

\* a program object that creates a checker on every call
CheckerMissingAlways(c) == TRUE

\* `!checker`, and the test of `checker ??=`
CheckerMissing(c) == c = 0

\* the sessions createKSChecker has not returned yet
Fresh == { s \in Sessions : ~created[s] }

\* the value of `checker` after `if (!checker) checker = createKSChecker()`
\* or `checker ??= createKSChecker()`: a new session or the one it held
Obtained ==
  IF CheckerMissing(checker)
    THEN CHOOSE s \in Fresh : \A o \in Fresh : s <= o
    ELSE checker

\* the targets the obtained checker holds
ObtainedTargets ==
  IF CheckerMissing(checker) THEN ksBind(config).targets
                             ELSE targets[checker]

\* the outcomes of checkProgram() on a checker holding tgts as session s
checkProgramOn(s, tgts) ==
  IF NeedsAnalysis(cached[s])
    THEN { [caches |-> StoreCache(cached, s, Pushed(results, failAt)),
            ran |-> TRUE, threw |-> failAt # 0] :
             results \in {TargetDiagnostics(tgts, program)},
             failAt \in FailurePoints(tgts) }
    ELSE { [caches |-> cached, ran |-> FALSE, threw |-> FALSE] }

\* program.getKindChecker()
GetKindChecker ==
  /\ CheckerMissing(checker) => Fresh # {}
  /\ checker' = Obtained
  /\ created' = [created EXCEPT ![Obtained] = TRUE]
  /\ targets' = [targets EXCEPT ![Obtained] = ObtainedTargets]
  /\ last' = [op |-> "getKindChecker", session |-> Obtained, sf |-> 0,
              outcome |-> "returned", ran |-> FALSE, result |-> <<>>]
  /\ UNCHANGED <<program, config, cached, runs, failed, first, applied>>

\* program.getKindDiagnostics(sf?): sf = 0 stands for no argument
GetKindDiagnostics ==
  /\ CheckerMissing(checker) => Fresh # {}
  /\ checker' = Obtained
  /\ created' = [created EXCEPT ![Obtained] = TRUE]
  /\ targets' = [targets EXCEPT ![Obtained] = ObtainedTargets]
  /\ \/ \E sf \in Range(program) :
          /\ Files[sf].isDeclarationFile
          /\ last' = [op |-> "getKindDiagnostics", session |-> Obtained,
                      sf |-> sf, outcome |-> "returned", ran |-> FALSE,
                      result |-> <<>>]
          /\ UNCHANGED <<cached, runs, failed, first>>
     \/ \E body \in checkProgramOn(Obtained, ObtainedTargets) :
        \E sf \in {0} \cup Range(program) :
          LET s   == Obtained
              all == body.caches[s].diags
              out == IF body.threw THEN <<>>
                     ELSE IF sf = 0 THEN all ELSE FilterByFile(all, sf)
          IN  /\ sf # 0 => ~Files[sf].isDeclarationFile
              /\ cached' = body.caches
              /\ runs' = [runs EXCEPT ![s] = IF body.ran THEN @ + 1 ELSE @]
              /\ failed' = [failed EXCEPT ![s] = @ \/ body.threw]
              /\ last' = [op |-> "getKindDiagnostics", session |-> s,
                          sf |-> sf,
                          outcome |-> IF body.threw THEN "threw"
                                      ELSE "returned",
                          ran |-> body.ran, result |-> out]
              /\ first' = IF sf = 0 /\ ~body.threw /\ ~first[s].set
                            THEN [first EXCEPT
                                    ![s] = [set |-> TRUE, diags |-> out]]
                            ELSE first
  /\ UNCHANGED <<program, config, applied>>

NextProgram ==
  \/ GetKindChecker
  \/ GetKindDiagnostics
  \/ \E s \in Sessions : CheckProgram(s)
  \/ \E s \in Sessions : CheckSourceFile(s)

SpecProgram == Init /\ [][NextProgram]_vars

\* ------------------------------------------------------------------------
\* Vocabulary of the properties
\* ------------------------------------------------------------------------

CheckOps == {"checkProgram", "checkSourceFile"}

\* session s has analysed every target: its cache holds a complete pass
Complete(s) == cached[s].set /\ ~failed[s]

\* the leaf symbols a target list governs: leaf targets and composite members
LeafSymbols(tgts) ==
  Flatten([i \in 1..Len(tgts) |->
             IF tgts[i].valueKind = "composite" THEN tgts[i].members
             ELSE << tgts[i] >>])

CompositeTargets(tgts) ==
  SelectSeq(tgts, LAMBDA t : t.valueKind = "composite")

\* the rules of a symbol that carry the given name
RulesNamed(sym, name) ==
  SelectSeq(sym.declaredProperties, LAMBDA r : r.name = name)

DeclaresTrue(sym, name) ==
  \E i \in 1..Len(sym.declaredProperties) :
     /\ sym.declaredProperties[i].name = name
     /\ sym.declaredProperties[i].type = "bool"
     /\ sym.declaredProperties[i].b

Resolves(sym, f) == f \in Range(resolveValueNodes(sym, program))

\* what checkProgram() returns on session s when no collaborator fails
FullResult(s) ==
  IF cached[s].set THEN cached[s].diags
  ELSE AnalysisPass(targets[s], program, 0)

\* the member of a composite that carries the given name
MembersNamed(comp, name) ==
  { k \in 1..Len(comp.members) : comp.members[k].name = name }

\* the import statements of artifacts of member `from` that resolve to an
\* artifact of member `to`, each as <<importing file, statement index>>
ImportEdges(comp, from, to) ==
  UNION { { <<f, i>> : i \in
              { j \in 1..Len(Files[f].statements) :
                  LET st == Files[f].statements[j]
                  IN  /\ st.kind \in {"ImportDeclaration",
                                       "ImportEqualsDeclaration"}
                      /\ st.target \in Range(program)
                      /\ \E b \in MembersNamed(comp, to) :
                            Resolves(comp.members[b], st.target) } } :
          f \in { g \in FileIds :
                    \E a \in MembersNamed(comp, from) :
                       Resolves(comp.members[a], g) } }

MemberNames(comp) == { comp.members[k].name : k \in 1..Len(comp.members) }

HasEdge(comp, from, to) == from # to /\ ImportEdges(comp, from, to) # {}

\* `to` is reachable from `from` by a path of at least one and at most n+1 edges
RECURSIVE ReachableWithin(_, _, _, _)
ReachableWithin(comp, from, to, n) ==
  \/ HasEdge(comp, from, to)
  \/ /\ n > 0
     /\ \E mid \in MemberNames(comp) :
           HasEdge(comp, from, mid) /\ ReachableWithin(comp, mid, to, n - 1)

Reachable(comp, from, to) ==
  ReachableWithin(comp, from, to, Len(comp.members))

\* the module specifiers the static and dynamic imports of an artifact name
DistinctSpecifiers(f) ==
  { Files[f].statements[i].spec :
      i \in { j \in 1..Len(Files[f].statements) :
                /\ Files[f].statements[j].kind \in
                     {"ImportDeclaration", "ImportEqualsDeclaration"}
                /\ Files[f].statements[j].spec # "" } }
  \cup
  { AllNodes(f)[i].text :
      i \in { j \in 1..Len(AllNodes(f)) :
                AllNodes(f)[j].kind = "DynamicImport" /\ AllNodes(f)[j].lit } }

FanOutMessage(k, max) ==
  "Value exceeds maximum fan-out: " \o ToString(k)
    \o " dependencies, max is " \o ToString(max)

\* ------------------------------------------------------------------------
\* Properties
\* ------------------------------------------------------------------------

\* C1: for every leaf symbol, every artifact it resolves to and every boolean
\* rule R declared true on it, a complete check holds one diagnostic per
\* violation R's predicate finds in the artifact, each anchored at its node.
C1_OneDiagnosticPerViolation ==
  \A s \in Sessions : Complete(s) =>
    \A f \in Range(program), R \in IntrinsicNames :
      LET users   == SelectSeq(LeafSymbols(targets[s]), LAMBDA L :
                       DeclaresTrue(L, R) /\ Resolves(L, f))
          found   == intrinsicChecks(R, f)
          emitted == SelectSeq(cached[s].diags, LAMBDA d :
                       d.file = f /\ d.property = R)
      IN  /\ Len(emitted) = Len(users) * Len(found)
          /\ Len(users) > 0 =>
               \A j \in 1..Len(found) : \E k \in 1..Len(emitted) :
                  /\ emitted[k].start = found[j].start
                  /\ emitted[k].length = found[j].width
                  /\ emitted[k].code = errorCodeMap[R]

\* C2: every checkProgram call that returns on a session returns the list
\* the first returning checkProgram call of that session returned.
C2_CheckProgramIdempotent ==
  (last.op = "checkProgram" /\ last.outcome = "returned")
    => /\ first[last.session].set
       /\ last.result = first[last.session].diags

\* a repeated checkProgram call returned a non-empty list
C2_Witness ==
  /\ last.op = "checkProgram" /\ last.outcome = "returned"
  /\ ~last.ran
  /\ last.result # <<>>

C4_SourceFileIsFilteredView ==
  (last.op = "checkSourceFile" /\ last.outcome = "returned")
    => last.result =
         SelectSeq(FullResult(last.session), LAMBDA d : d.file = last.sf)

\* checkSourceFile returned some, but not all, diagnostics of the session
C4_Witness ==
  /\ last.op = "checkSourceFile" /\ last.outcome = "returned"
  /\ last.result # <<>>
  /\ Len(last.result) < Len(cached[last.session].diags)

\* C5: once a collaborator call has failed during the analysis of a session,
\* no checkProgram or checkSourceFile call on it returns a list that omits
\* diagnostics of the targets that were not analysed.
C5_FailureNeverHidden ==
  ( /\ last.op \in CheckOps /\ last.outcome = "returned"
    /\ failed[last.session] )
    => LET full == AnalysisPass(targets[last.session], program, 0)
       IN  last.result =
             IF last.op = "checkProgram" THEN full
             ELSE SelectSeq(full, LAMBDA d : d.file = last.sf)

\* C6: a call on one session leaves the cache of every other session as it
\* was, and a checkProgram call is answered with the session's own cache.
C6_CacheIsSessionScoped ==
  [][ /\ \A t \in Sessions : t # last'.session => cached'[t] = cached[t]
      /\ (last'.op = "checkProgram" /\ last'.outcome = "returned")
           => last'.result = cached'[last'.session].diags ]_vars

\* both sessions hold a cache, the two caches differ, and a checkProgram
\* call has just been answered
C6_Witness ==
  /\ cached[1].set /\ cached[2].set
  /\ cached[1].diags # cached[2].diags
  /\ last.op = "checkProgram" /\ last.outcome = "returned"
  /\ last.result # <<>>

\* C7: for a composite whose noDependency holds the pair [A,B], a complete
\* check holds exactly one diagnostic with code 70001 per import edge from an
\* artifact of A to an artifact of B (and none when there is no such edge).
C7_NoDependencyPerEdge ==
  \A s \in Sessions : Complete(s) =>
    LET comps    == CompositeTargets(targets[s])
        expected ==
          SumSeq([i \in 1..Len(comps) |->
            SumSeq([j \in 1..Len(RulesNamed(comps[i], "noDependency")) |->
              LET pairs == RulesNamed(comps[i], "noDependency")[j].pairs
              IN  SumSeq([k \in 1..Len(pairs) |->
                    Cardinality(ImportEdges(comps[i], pairs[k][1],
                                            pairs[k][2]))])])])
    IN  Len(SelectSeq(cached[s].diags, LAMBDA d : d.code = 70001)) = expected

\* C8: for a composite with noCycles:[A,B,C] whose members import each other
\* in the cycle A->B->C->A, a complete check holds a diagnostic with code 70004.
C8_CycleReported ==
  \A s \in Sessions : Complete(s) =>
    \A i \in 1..Len(targets[s]) :
      LET comp == targets[s][i]
      IN  \A j \in 1..Len(RulesNamed(comp, "noCycles")) :
            LET listed == Range(RulesNamed(comp, "noCycles")[j].names)
            IN  ( /\ comp.valueKind = "composite"
                  /\ \E a, b, c \in listed :
                        /\ HasEdge(comp, a, b)
                        /\ HasEdge(comp, b, c)
                        /\ HasEdge(comp, c, a) )
                => \E k \in 1..Len(cached[s].diags) :
                      cached[s].diags[k].code = 70004

\* C9: for a composite whose noTransitiveDependency holds the pair [A,B], a
\* complete check holds a diagnostic with code 70002 if and only if B is
\* reachable from A by a path of at least one edge of the member import graph.
C9_TransitiveIffReachable ==
  \A s \in Sessions : Complete(s) =>
    ( (\E k \in 1..Len(cached[s].diags) : cached[s].diags[k].code = 70002)
      <=>
      (\E i \in 1..Len(targets[s]) :
         /\ targets[s][i].valueKind = "composite"
         /\ \E j \in 1..Len(RulesNamed(targets[s][i],
                                       "noTransitiveDependency")) :
              LET pairs == RulesNamed(targets[s][i],
                                      "noTransitiveDependency")[j].pairs
              IN  \E k \in 1..Len(pairs) :
                     Reachable(targets[s][i], pairs[k][1], pairs[k][2])) )

\* C10: for a leaf symbol with maxFanOut: N and a resolved artifact whose
\* imports name k distinct module specifiers, a complete check holds exactly
\* one diagnostic with code 70014 for the artifact, reporting k, when k > N,
\* and none when k <= N.
C10_FanOutDiagnostic ==
  \A s \in Sessions : Complete(s) =>
    \A f \in Range(program) :
      LET k       == Cardinality(DistinctSpecifiers(f))
          limits  == Flatten(MapSeq(LAMBDA L :
                       IF Resolves(L, f)
                         THEN MapSeq(LAMBDA r : r.n, RulesNamed(L, "maxFanOut"))
                         ELSE <<>>,
                       LeafSymbols(targets[s])))
          over    == SelectSeq(limits, LAMBDA n : k > n)
          emitted == SelectSeq(cached[s].diags, LAMBDA d :
                       d.file = f /\ d.code = 70014)
      IN  /\ Len(emitted) = Len(over)
          /\ \A j \in 1..Len(emitted) :
                \E i \in 1..Len(over) :
                   emitted[j].messageText = FanOutMessage(k, over[i])

\* ------------------------------------------------------------------------
\* Properties of the binder, the resolver, the checks and the assembler
\* ------------------------------------------------------------------------

\* a rule whose value has the type its name asks for: a number for
\* maxFanOut, true for the boolean rules
WellTyped(rule) ==
  IF rule.name = "maxFanOut" THEN rule.type = "num"
  ELSE IF rule.name \in IntrinsicNames THEN rule.type = "bool" /\ rule.b
  ELSE TRUE

\* the symbol without the rules that satisfy Drop
WithoutRules(sym, Drop(_)) ==
  [sym EXCEPT !.declaredProperties = SelectSeq(@, LAMBDA r : ~Drop(r))]

\* C11: a rule whose value has the wrong type (a maxFanOut that is not a
\* number, a boolean rule that is not true) is ignored: checkSymbol returns
\* for a leaf symbol what it returns for the symbol without those rules.
C11_MalformedRuleIgnored ==
  (applied.op = "checkSymbol" /\ applied.sym.valueKind # "composite")
    => applied.result =
         checkSymbol(WithoutRules(applied.sym, LAMBDA r : ~WellTyped(r)),
                     program)

\* C12 as stated: an entry whose path equals the path of any source file of
\* the program, declaration files included, resolves to a set that contains
\* that file.
C12_ExactPathResolvesAny ==
  (applied.op = "resolveValueNodes" /\ applied.sym.hasPath)
    => \A f \in Range(program) :
          applied.sym.path = Files[f].fileName
            => f \in Range(applied.result)

\* C12: an entry whose path equals the path of a source file of the program
\* that is not a declaration file resolves to a set that contains that file.
C12_ExactPathResolves ==
  (applied.op = "resolveValueNodes" /\ applied.sym.hasPath)
    => \A f \in Range(program) :
          (applied.sym.path = Files[f].fileName
             /\ ~Files[f].isDeclarationFile)
            => f \in Range(applied.result)

\* an entry carrying the exact path of a source file was bound and resolved
\* to a set holding that file
C12_Witness ==
  /\ applied.op = "resolveValueNodes" /\ applied.sym.hasPath
  /\ \E f \in Range(program) :
        /\ applied.sym.path = Files[f].fileName
        /\ ~Files[f].isDeclarationFile
        /\ f \in Range(applied.result)

\* a path normalized to forward slashes with a leading './' stripped
NormalizedPath(path) == StripDotSlash(ToForwardSlashes(path))

\* the source files of the program that are not declaration files and whose
\* normalized path contains the needle as a contiguous substring
Containing(needle) ==
  { f \in Range(program) :
      /\ ~Files[f].isDeclarationFile
      /\ Includes(NormalizedPath(Files[f].fileName), needle) }

\* C13: a directory target with normalized path T resolves to exactly the
\* non-declaration source files whose normalized path contains /T/; a file
\* under a sibling directory whose name extends T's last segment is not
\* matched.
C13_DirectoryResolution ==
  (applied.op = "resolveValueNodes" /\ applied.sym.valueKind = "directory")
    => Range(applied.result) =
         Containing(<<"/">> \o NormalizedPath(applied.sym.path) \o <<"/">>)

\* C14: a file target resolves to exactly the non-declaration source files
\* whose normalized path contains the target's normalized path.
C14_FileResolution ==
  (applied.op = "resolveValueNodes" /\ applied.sym.valueKind = "file")
    => Range(applied.result) = Containing(NormalizedPath(applied.sym.path))

\* C15: no declaration file is in the resolved set of a target or of a
\* composite member, no diagnostic a checkProgram or checkSourceFile call
\* returns has a declaration file as its file, and checkSourceFile of a
\* declaration file returns the empty list.
C15_DeclarationFilesExcluded ==
  /\ \A s \in Sessions :
       LET leaves == LeafSymbols(targets[s])
       IN  \A i \in 1..Len(leaves) :
             \A f \in Range(resolveValueNodes(leaves[i], program)) :
                ~Files[f].isDeclarationFile
  /\ (last.op \in CheckOps /\ last.outcome = "returned")
       => \A j \in 1..Len(last.result) :
             ~Files[last.result[j].file].isDeclarationFile
  /\ (last.op = "checkSourceFile" /\ Files[last.sf].isDeclarationFile)
       => last.outcome = "returned" /\ last.result = <<>>

\* checkSourceFile was called for a declaration file that lies in the
\* directory of a target, on a session whose cache holds diagnostics
C15_Witness ==
  /\ last.op = "checkSourceFile" /\ Files[last.sf].isDeclarationFile
  /\ cached[last.session].set /\ cached[last.session].diags # <<>>
  /\ \E i \in 1..Len(LeafSymbols(targets[last.session])) :
        last.sf \in Range(resolveValueNodesAll(
                            LeafSymbols(targets[last.session])[i], program))

\* the leaf targets and composite members ksBind(config) produces
BoundLeaves ==
  SelectSeq(ksBind(config).symbols, LAMBDA sym : sym.valueKind # "composite")

\* C16: a leaf target or composite member that resolves to no source file
\* gets no diagnostic from checkSymbol, whatever rules it or its composite
\* declares, and a check in which no leaf resolves to a source file (one
\* without targets in particular) returns the empty list.
C16_EmptyResolutionNoDiagnostics ==
  /\ ( /\ applied.op = "checkSymbol"
       /\ applied.sym.valueKind # "composite"
       /\ resolveValueNodes(applied.sym, program) = <<>> )
       => applied.result = <<>>
  /\ ( /\ applied.op = "check"
       /\ \A i \in 1..Len(BoundLeaves) :
             resolveValueNodes(BoundLeaves[i], program) = <<>> )
       => applied.result = <<>>

\* a check over a program with source files returned nothing for a
\* configuration whose composite has relational rules and members with
\* rules, none of which resolves
C16_Witness ==
  /\ applied.op = "check" /\ applied.result = <<>>
  /\ program # <<>>
  /\ \E i \in 1..Len(config) :
        /\ isCompositeEntry(config[i])
        /\ config[i].rules # <<>>
        /\ \A k \in 1..Len(config[i].members) :
              config[i].members[k].rules # <<>>
  /\ \A i \in 1..Len(BoundLeaves) :
        resolveValueNodes(BoundLeaves[i], program) = <<>>

\* C17: every diagnostic a check returns has a code in 70001..70015.
C17_CodeInRange ==
  applied.op = "check"
    => \A j \in 1..Len(applied.result) :
          applied.result[j].code \in 70001..70015

\* a check returned diagnostics for a target that also declares rule names
\* the checker has no check for
C17_Witness ==
  /\ applied.op = "check" /\ applied.result # <<>>
  /\ \E i \in 1..Len(BoundLeaves) :
     \E k \in 1..Len(BoundLeaves[i].declaredProperties) :
        LET rule == BoundLeaves[i].declaredProperties[k]
        IN  /\ rule.name \notin IntrinsicNames \cup {"maxFanOut"}
            /\ rule.type = "bool" /\ rule.b

\* the rule-code table of the 15 rule names
RuleCodeTable ==
  [ noDependency |-> 70001, noTransitiveDependency |-> 70002,
    pure |-> 70003, noCycles |-> 70004, scope |-> 70005,
    exhaustive |-> 70006, noIO |-> 70007, noImports |-> 70008,
    noConsole |-> 70009, immutable |-> 70010, static |-> 70011,
    noSideEffects |-> 70012, noMutation |-> 70013, maxFanOut |-> 70014,
    noSiblingDependency |-> 70015 ]

Unrecognized(rule) == rule.name \notin IntrinsicNames \cup {"maxFanOut"}

Findings(vs) ==
  { [start |-> vs[i].start, width |-> vs[i].width, message |-> vs[i].message] :
      i \in 1..Len(vs) }

\* the source file violates at least one of noIO, noMutation, noSideEffects
ViolatesPurity(f) ==
  \/ checkNoIO(f) # <<>>
  \/ checkNoMutation(f) # <<>>
  \/ checkNoSideEffects(f) # <<>>

ImportsOf(f) ==
  { [start |-> Files[f].statements[i].start,
     width |-> Files[f].statements[i].width,
     spec |-> Files[f].statements[i].spec] :
      i \in { j \in 1..Len(Files[f].statements) :
                Files[f].statements[j].kind \in
                  {"ImportDeclaration", "ImportEqualsDeclaration"} } }
  \cup
  { [start |-> AllNodes(f)[i].start, width |-> AllNodes(f)[i].width,
     spec |-> AllNodes(f)[i].text] :
      i \in { j \in 1..Len(AllNodes(f)) :
                AllNodes(f)[j].kind = "DynamicImport" /\ AllNodes(f)[j].lit } }

\* C21: under noIO every import of the file, static (import declaration or
\* import-equals) or dynamic, is reported as a violation exactly when its
\* module specifier is in the closed set of I/O modules.
C21_IOImportsFlagged ==
  (applied.op = "intrinsicCheck" /\ applied.property = "noIO") =>
    \A imp \in ImportsOf(applied.file) :
      (imp.spec \in IO_MODULES) <=>
        \E k \in 1..Len(applied.result) :
          /\ applied.result[k].start = imp.start
          /\ applied.result[k].width = imp.width

\* the member symbols of the composite symbols of a list
MemberSymbols(syms) ==
  UNION { Range(syms[i].members) : i \in 1..Len(syms) }

\* C22: ksBind returns in targets one symbol per top-level entry, in the
\* order of the configuration, and in symbols those symbols plus one symbol
\* per member of each composite entry and nothing else, so that symbols is
\* as long as targets plus the number of all composite members.
C22_TargetsAndSymbols ==
  applied.op = "ksBind" =>
    LET r == applied.result
    IN  /\ Len(r.targets) = Len(config)
        /\ \A i \in 1..Len(config) :
             /\ r.targets[i].name = config[i].name
             /\ (r.targets[i].valueKind = "composite") = config[i].isComposite
             /\ r.targets[i].declaredProperties = config[i].rules
             /\ ~config[i].isComposite => r.targets[i].path = config[i].path
             /\ Len(r.targets[i].members) = Len(config[i].members)
             /\ \A k \in 1..Len(config[i].members) :
                  /\ r.targets[i].members[k].name = config[i].members[k].name
                  /\ r.targets[i].members[k].path = config[i].members[k].path
        /\ Range(r.symbols) = Range(r.targets) \cup MemberSymbols(r.targets)
        /\ Len(r.symbols) =
             Len(r.targets)
               + SumSeq(MapSeq(LAMBDA e : Len(e.members), config))

\* a configuration with a leaf entry and a composite with members is bound
C22_Witness ==
  /\ applied.op = "ksBind"
  /\ Len(applied.result.targets) >= 2
  /\ Len(applied.result.symbols) >= Len(applied.result.targets) + 2
  /\ \E i \in 1..Len(config) : ~config[i].isComposite

\* the id that carries the number n
IdNumbered(n) == "sym-" \o ToString(n)

\* C23: within one ksBind result the ids are pairwise distinct and their
\* numbers increase strictly along the symbols list (the i-th symbol bound
\* carries the i-th number), every member of a composite comes before, and
\* is numbered lower than, the composite, and binding the same
\* configuration again yields the same ids.
C23_IdsFollowBindingOrder ==
  applied.op = "ksBind" =>
    LET syms == applied.result.symbols
    IN  /\ \A i, j \in 1..Len(syms) : i # j => syms[i].id # syms[j].id
        /\ \A i \in 1..Len(syms) : syms[i].id = IdNumbered(i - 1)
        /\ \A i \in 1..Len(syms) :
             \A k \in 1..Len(syms[i].members) :
               \E j \in 1..(i - 1) :
                 /\ syms[j] = syms[i].members[k]
                 /\ syms[j].id = IdNumbered(j - 1)
        /\ Len(ksBind(config).symbols) = Len(syms)
        /\ \A i \in 1..Len(syms) : ksBind(config).symbols[i].id = syms[i].id

\* a composite with members, followed by another entry, is bound
C23_Witness ==
  /\ applied.op = "ksBind"
  /\ \E i \in 1..Len(applied.result.symbols) :
       /\ Len(applied.result.symbols[i].members) >= 2
       /\ i < Len(applied.result.symbols)

\* C24: every symbol ksBind produces has one valueKind among file,
\* directory and composite; it is composite exactly when it has a members
\* mapping; a composite symbol has no path, and a file or directory symbol
\* has a path and no members.  The same holds of the member symbols a
\* composite holds.
C24_SymbolShape ==
  applied.op = "ksBind" =>
    \A sym \in Range(applied.result.symbols)
                 \cup Range(applied.result.targets)
                 \cup MemberSymbols(applied.result.symbols) :
      /\ sym.valueKind \in {"file", "directory", "composite"}
      /\ (sym.valueKind = "composite") <=> sym.hasMembers
      /\ sym.valueKind = "composite" => ~sym.hasPath
      /\ sym.valueKind \in {"file", "directory"} =>
           sym.hasPath /\ ~sym.hasMembers

\* file, directory and composite symbols are bound together, one of the
\* composites having no member
C24_Witness ==
  /\ applied.op = "ksBind"
  /\ \A kind \in {"file", "directory", "composite"} :
       \E sym \in Range(applied.result.symbols) : sym.valueKind = kind
  /\ \E sym \in Range(applied.result.symbols) :
       sym.hasMembers /\ sym.members = <<>>

\* the last segment of a path: what follows its last '/' or '\'
FinalSegment(path) ==
  LET seps == { i \in 1..Len(path) : path[i] \in {"/", "\\"} }
      cut  == IF seps = {} THEN 0
              ELSE CHOOSE i \in seps : \A j \in seps : j <= i
  IN  SubSeq(path, cut + 1, Len(path))

\* a segment ends in an extension: a dot followed by one or more word
\* characters up to the end of the segment
EndsInExtension(seg) ==
  \E n \in 1..(Len(seg) - 1) :
    /\ seg[Len(seg) - n] = "."
    /\ \A j \in (Len(seg) - n + 1)..Len(seg) : seg[j] \in WordChars

\* the symbols that carry a path: leaf targets and composite members
LeafSymbolsOf(result) ==
  { sym \in Range(result.symbols) : sym.hasPath }

\* C25: ksBind classifies a leaf path as a file target exactly when the
\* last segment of the path ends in an extension and as a directory target
\* otherwise; the classification is a function of the path string alone,
\* whatever source files the program holds.
C25_KindFromPathAlone ==
  applied.op = "ksBind" =>
    \A sym \in LeafSymbolsOf(applied.result) :
      /\ sym.valueKind =
           IF EndsInExtension(FinalSegment(sym.path)) THEN "file"
                                                      ELSE "directory"
      /\ (sym.valueKind = "file") <=> ~(sym.valueKind = "directory")

\* a path with a dot outside its last segment is bound as a directory, next
\* to a path bound as a file that names no source file of the program
C25_Witness ==
  /\ applied.op = "ksBind"
  /\ \E sym \in LeafSymbolsOf(applied.result) :
       /\ sym.valueKind = "directory"
       /\ "." \in Range(sym.path)
  /\ \E sym \in LeafSymbolsOf(applied.result) :
       /\ sym.valueKind = "file"
       /\ resolveValueNodes(sym, program) = <<>>

\* the checkers created so far
CreatedCheckers == { s \in Sessions : created[s] }

\* C26: whatever getKindChecker and getKindDiagnostics calls are made on a
\* program, no checker exists before the first of them, exactly one exists
\* after it, every getKindChecker call returns that one and every
\* getKindDiagnostics call runs on it.
C26_OneLazyChecker ==
  /\ Cardinality(CreatedCheckers) <= 1
  /\ last = NoCall => CreatedCheckers = {} /\ checker = 0
  /\ checker = 0 <=> CreatedCheckers = {}
  /\ last.op \in {"getKindChecker", "getKindDiagnostics"} =>
       /\ CreatedCheckers = {checker}
       /\ last.session = checker
  /\ \A s \in Sessions : runs[s] > 0 \/ cached[s].set => s = checker

\* getKindChecker returns the checker an earlier getKindDiagnostics call
\* created and filled
C26_Witness ==
  /\ last.op = "getKindChecker"
  /\ checker # 0
  /\ last.session = checker
  /\ cached[checker].set
  /\ cached[checker].diags # <<>>

\* the diagnostics of one leaf symbol: its own rules applied to each of its
\* resolved source files, in the order of the files
LeafDiagnostics(sym) ==
  LET nodes == resolveValueNodes(sym, program)
  IN  Flatten([k \in 1..Len(nodes) |->
                 BooleanDiagnostics(sym.declaredProperties, nodes[k])
                   \o FanOutDiagnostics(sym.declaredProperties, nodes[k])])

\* the rules of a rule set an intrinsic check or maxFanOut would enforce
OwnIntrinsicRules(sym) ==
  { i \in 1..Len(sym.declaredProperties) :
      \/ /\ sym.declaredProperties[i].name \in IntrinsicNames
         /\ sym.declaredProperties[i].type = "bool"
         /\ sym.declaredProperties[i].b
      \/ sym.declaredProperties[i].name = "maxFanOut" }

C28_NonEmptySpan ==
  applied.op = "check" =>
    \A k \in 1..Len(applied.result) :
      /\ applied.result[k].start >= 0
      /\ applied.result[k].length > 0

\* C29: checkProgram and checkSourceFile never modify the bound symbols:
\* after any sequence of check calls the targets a checker holds are the
\* symbols the binder made, in the same order, each with the id, name,
\* valueKind, path, declared rules and members it was bound with.
C29_SymbolsNeverModified ==
  \A s \in Sessions :
    created[s] =>
      /\ Len(targets[s]) = Len(ksBind(config).targets)
      /\ \A i \in 1..Len(targets[s]) :
           LET sym   == targets[s][i]
               bound == ksBind(config).targets[i]
           IN  /\ sym.id = bound.id
               /\ sym.name = bound.name
               /\ sym.valueKind = bound.valueKind
               /\ sym.hasPath = bound.hasPath
               /\ sym.path = bound.path
               /\ sym.declaredProperties = bound.declaredProperties
               /\ sym.hasMembers = bound.hasMembers
               /\ sym.members = bound.members

\* a checker holding a leaf and a composite has analysed them and has since
\* answered a checkSourceFile call from its cache
C29_Witness ==
  \E s \in Sessions :
    /\ created[s]
    /\ cached[s].set
    /\ cached[s].diags # <<>>
    /\ \E i, j \in 1..Len(targets[s]) :
         targets[s][i].hasMembers /\ targets[s][j].hasPath
    /\ last.op = "checkSourceFile"
    /\ last.session = s
    /\ ~last.ran

\* the leaf symbols the check of a configuration goes through
CheckedLeaves == Range(LeafSymbols(ksBind(config).targets))

\* a leaf symbol justifies a diagnostic: the diagnostic's file is among the
\* source files the symbol resolves to, the symbol declares the diagnostic's
\* rule (a boolean rule with the value true, or maxFanOut), and the rule's
\* check finds a violation in that file at the place the diagnostic names
Justifies(sym, d) ==
  /\ Resolves(sym, d.file)
  /\ \/ /\ d.property \in IntrinsicNames
        /\ DeclaresTrue(sym, d.property)
        /\ \E v \in Range(intrinsicChecks(d.property, d.file)) :
             v.start = d.start /\ v.width = d.length
     \/ /\ d.property = "maxFanOut"
        /\ \E rule \in Range(RulesNamed(sym, "maxFanOut")) :
             checkMaxFanOut(d.file, rule) # <<>>

\* C30: every diagnostic checkProgram returns is justified by one leaf
\* symbol (a top-level leaf target or a member of a composite): none is
\* produced for a rule the symbol does not declare or for a source file no
\* symbol resolves to.
C30_DiagnosticsJustified ==
  applied.op = "check" =>
    \A k \in 1..Len(applied.result) :
      \E sym \in CheckedLeaves : Justifies(sym, applied.result[k])

\* a check returns diagnostics although a checked symbol names a rule with
\* the value false that its file breaks, and a file of the program is
\* resolved by no symbol
C30_Witness ==
  /\ applied.op = "check"
  /\ applied.result # <<>>
  /\ \E sym \in CheckedLeaves :
       \E rule \in Range(sym.declaredProperties) :
         /\ rule.name \in IntrinsicNames
         /\ rule.type = "bool" /\ ~rule.b
         /\ \E f \in Range(resolveValueNodes(sym, program)) :
              intrinsicChecks(rule.name, f) # <<>>
  /\ \E f \in Range(program) :
       /\ ~Files[f].isDeclarationFile
       /\ \A sym \in CheckedLeaves : ~Resolves(sym, f)

=============================================================================
